---- MODULE Spec2Model ----
(***************************************************************************)
(* Model of the phriend-demo call pipeline.                                *)
(*                                                                         *)
(* Part 1 (Spec, FairSpec): the session state machine of the webhook       *)
(* route (src/src/app/api/vapi/webhook/route.ts, second iteration, lines   *)
(* 345-980) on top of SessionManager (src/unnamed/part_001, lines 1-85).   *)
(* One session is modelled.  JavaScript object identity is kept: the       *)
(* session map holds a reference to an object of a heap, getSession hands  *)
(* out that reference, updateSession stores a NEW object {...cur, ...upd}, *)
(* updateCallState mutates the stored object in place.                     *)
(*                                                                         *)
(* Scheduling: Node runs one callback at a time.  A continuation that is   *)
(* resumed by an already settled promise (the code after                   *)
(* `await createFutureSelfForSession(..)`) runs in the microtask queue,    *)
(* before any timer or I/O callback; Busy models that.                     *)
(*                                                                         *)
(* Part 2 (SpecCapture): one VapiAudioCapture object                       *)
(* (src/src/app/lib/audioCapture.ts, third iteration, lines 626-1045).     *)
(*                                                                         *)
(* Part 3 (SpecRoutes): the clone routes, the ElevenLabs one               *)
(* (src/src/app/api/elevenlabs/clone-voice-realtime/route.ts) and the      *)
(* PlayHT one (src/unnamed/part_004, lines 40-294).                        *)
(*                                                                         *)
(* Part 4 (SpecAssistant): one call of createFutureSelfAssistant           *)
(* (src/unnamed/part_001, lines 165-418).                                  *)
(*                                                                         *)
(* Part 5 (SpecWebhook, SpecClones): POST of the webhook route, its        *)
(* validation, its switch and the texts its handlers gather; the clone     *)
(* requests of the captures that repeated call-starts construct.           *)
(*                                                                         *)
(* Part 6 (SpecFormat, SpecWav, SpecChannel): analyzeAudioFormat,          *)
(* createWAVFile and extractUserChannel of the capture, applied to inputs  *)
(* drawn from bounded sets.                                                *)
(***************************************************************************)
EXTENDS Integers, Sequences, FiniteSets, TLC

\* ------------------------------------------------------------------ bounds
\* binary frames delivered to one capture
MaxFrames == 3
\* largest maxBufferSize a capture is constructed with (the default is 1000)
MaxCapacity == 2
\* sockets one capture opens (the first connect and the reconnects)
MaxSockets == 4
\* the clock of the capture advances in steps of TickSeconds up to MaxTime
TickSeconds == 15
MaxTime == 45
\* POSTs the clone routes receive for one call
MaxPosts == 2
\* entries of session.transcripts
MaxTranscripts == 2
\* messages of one conversation-update event
MaxConversation == 2
\* captures handleCallStarted constructs for one session id
MaxCaptures == 2
\* bytes of the PCM input of createWAVFile
MaxPcmBytes == 3
\* chunks of the input of extractUserChannel, and bytes of one chunk
MaxChunks == 2
MaxChunkBytes == 4

\* ------------------------------------------------------ program constants
maxReconnectAttempts == 3
maxRetries == 3
\* the poller of triggerFutureSelfCreation: setInterval(.., 5000) and
\* setTimeout(.., 300000)
PollIntervalMs == 5000
PollCeilingMs == 300000
\* the ticks that are due no later than the ceiling
MaxPollTicks == PollCeilingMs \div PollIntervalMs
minSecondsForCloning == 30
NormalClosure == 1000
AbnormalClosure == 1006

\* ------------------------------------------------------------- vocabulary
Owners == {"handler", "fallback", "poller", "callend"}
CallStates == <<"onboarding", "preparing_interruption",
                "interruption_delivered", "ready_for_future_call">>
Absent == "absent"          \* the object has no such key
Undefined == "undefined"    \* the key is present and holds undefined
TimerHandle == "handle"     \* a NodeJS.Timeout
VoiceId == "voice1"         \* the voice_id of the provider's response
\* an utterance: its words and whether whitespace surrounds them
Text(core, pad) == [core |-> core, pad |-> pad]
NoText == Text("undefined", FALSE)       \* the field is missing

VARIABLES
  store,            \* sessions.get(sessionId): 0 or a heap reference
  heap,             \* the session objects some reference reaches
  hA,               \* voiceCloneReady handler's `currentSession`
  ref,              \* per continuation: the session object it passed to
                    \* createFutureSelfForSession
  pc,               \* per continuation: its position
  stateTimer,       \* the 55 s timer of handleCallStarted
  fallbackSt,       \* the 30 s fallback timer
  pollInterval,     \* setInterval of triggerFutureSelfCreation
  pollCeiling,      \* the 300 s timer that stops the poller
  pollTicks,        \* ticks of the poller that found the clone not ready
  readyTimers,      \* pending 5 s timers (-> ready_for_future_call)
  capture,          \* audioCaptures entry of the call
  hasAudio,         \* the capture's audioBuffer is non-empty
  cloneTriggered,   \* the capture's voiceCloneTriggered latch
  cloneReq,         \* the fetch to /api/elevenlabs/clone-voice-realtime
  callEnded,        \* the end-of-call-report has been handled
  creationRequests, \* calls of createFutureSelfAssistant so far
  assistants        \* assistants created at the persona API so far

\* the VapiAudioCapture object
VARIABLES
  ws,                   \* this.ws: 0 (null) or the socket it refers to
  socks,                \* readyState of every socket the capture created
  connectCalled,        \* the owner has called connect(listenUrl)
  disconnectCalled,     \* the owner has called disconnect()
  maxBufferSize,
  audioBuffer,          \* the buffered chunks, oldest first
  audioChunksReceived,
  totalAudioBytes,
  audioStartTime,       \* -1 (null) or the time of the first chunk
  voiceCloneTriggered,
  connectionTimeout,    \* this.connectionTimeout: "null", "pending", "fired"
  orphanTimeouts,       \* pending timeout timers the field no longer holds
  reconnectAttempts,
  reconnectTimers,      \* pending setTimeout(() => this.connect(..), delay)
  reconnectDelay,       \* the delay (ms) of the latest of these timers, 0: none yet
  detectedSampleRate,
  sampleRateDetected,
  chunkSizeHistory,
  audioFormatFromMetadata, \* 0 (null) or the sampleRate of the message
  now,                  \* Date.now(), in seconds
  readyEmitted,         \* 'voiceCloneReady' events emitted
  errorEmitted          \* 'voiceCloneError' events emitted

cvars == <<ws, socks, connectCalled, disconnectCalled, maxBufferSize,
           audioBuffer, audioChunksReceived, totalAudioBytes, audioStartTime,
           voiceCloneTriggered, connectionTimeout, orphanTimeouts,
           reconnectAttempts, reconnectTimers, reconnectDelay, detectedSampleRate,
           sampleRateDetected, chunkSizeHistory, audioFormatFromMetadata,
           now, readyEmitted, errorEmitted>>

svars == <<store, heap, hA, ref, pc, stateTimer, fallbackSt, pollInterval,
           pollCeiling, pollTicks, readyTimers, capture, hasAudio,
           cloneTriggered, cloneReq, callEnded, creationRequests,
           assistants>>

\* the clone routes (POST /api/elevenlabs/clone-voice-realtime and the
\* PlayHT clone-voice-realtime route)
VARIABLES
  posts             \* the POSTs the clone routes have received, in order

rvars == <<posts>>

\* one call of createFutureSelfAssistant(session)
VARIABLES
  aPc,              \* its position
  aCloned,          \* session.clonedVoiceId is set
  attempt,          \* the loop variable
  vapiRequests      \* the POSTs to api.vapi.ai/assistant it has made, each
                    \* with the voice of its body and the way it settled

avars == <<aPc, aCloned, attempt, vapiRequests>>

\* the webhook's POST and what its text handlers gather for one session
VARIABLES
  hasSession,         \* the session map holds the session
  userName,           \* session.userName
  problemDescription, \* session.problemDescription
  transcripts,        \* session.transcripts
  clonedVoiceId,      \* session.clonedVoiceId: 0, or k for the voice that
                      \* the provider made for the request of capture k
  voiceCloneCompleted,\* session.voiceCloneCompleted
  clones,             \* the captures handleCallStarted has constructed,
                      \* each with the state of its clone request
  audioCaptures,      \* the registry: the capture it holds for the call,
                      \* 0 for none
  request,            \* the latest POST: the kind of its payload
  response            \* the response to the latest POST

wvars == <<hasSession, userName, problemDescription, transcripts,
           clonedVoiceId, voiceCloneCompleted, clones, audioCaptures,
           request, response>>

\* the arguments and results of createWAVFile and extractUserChannel
VARIABLES
  audioData,        \* createWAVFile: the PCM bytes
  sampleRate,       \* createWAVFile: the sample rate
  wavFile,          \* createWAVFile: what the call gave
  audioChunks,      \* extractUserChannel: the buffered chunks
  userAudio         \* extractUserChannel: what the call gave

fvars == <<audioData, sampleRate, wavFile, audioChunks, userAudio>>

vars == <<svars, cvars, rvars, avars, wvars, fvars>>

\* ------------------------------------------------------------ the objects
NullObj == [status |-> "null", callState |-> "null",
            voiceCloneCompleted |-> FALSE, clonedVoiceId |-> Absent,
            futureSelfCreated |-> FALSE, futureSelfAssistantId |-> 0,
            fallbackTimer |-> Absent]

\* SessionManager.createSession: the object literal
NewSession == [status |-> "counseling", callState |-> "onboarding",
               voiceCloneCompleted |-> FALSE, clonedVoiceId |-> Absent,
               futureSelfCreated |-> FALSE, futureSelfAssistantId |-> 0,
               fallbackTimer |-> Absent]

\* { ...cur, ...upd }: every key present in upd wins, a key absent from upd
\* keeps cur's value.  status, callState, voiceCloneCompleted and
\* futureSelfCreated are present in every session object.
Spread(cur, upd) ==
  [status |-> upd.status,
   callState |-> upd.callState,
   voiceCloneCompleted |-> upd.voiceCloneCompleted,
   futureSelfCreated |-> upd.futureSelfCreated,
   clonedVoiceId |-> IF upd.clonedVoiceId = Absent THEN cur.clonedVoiceId
                     ELSE upd.clonedVoiceId,
   futureSelfAssistantId |-> IF upd.futureSelfAssistantId = 0
                             THEN cur.futureSelfAssistantId
                             ELSE upd.futureSelfAssistantId,
   fallbackTimer |-> IF upd.fallbackTimer = Absent THEN cur.fallbackTimer
                     ELSE upd.fallbackTimer]

Live(st, a, r) == ({st, a} \cup {r[o] : o \in Owners}) \ {0}

\* the reference of a new object
Fresh(used) == CHOOSE i \in 1..(Cardinality(used) + 1) :
                 i \notin used /\ \A j \in 1..i : j \notin used => i <= j

\* objects no reference reaches are dropped
Collect(h, live) == [i \in live |-> h[i]]

\* SessionManager.updateSession(sessionId, u) where u is heap object `u` of
\* heap h: the new store reference and the new heap
UpdStore(h, st, u, used) == IF st = 0 THEN st ELSE Fresh(used \cup {st})
UpdHeap(h, st, u, used) ==
  IF st = 0 THEN h
  ELSE [i \in DOMAIN h \cup {Fresh(used \cup {st})} |->
          IF i \in DOMAIN h THEN h[i] ELSE Spread(h[st], h[u])]

\* SessionManager.updateCallState: the stored object is changed in place
UpdateCallState(h, st, newState) ==
  IF st = 0 THEN h ELSE [h EXCEPT ![st].callState = newState]

\* `!session.voiceCloneCompleted || !session.clonedVoiceId` is false
CloneReady(o) == o.voiceCloneCompleted /\ o.clonedVoiceId # Absent

\* the stored session, as a status query reads it
Stored == IF store = 0 THEN NullObj ELSE heap[store]

\* GET call-status for the session: 404 without a session, else 200 with
\* the fields of the stored object (elapsedSeconds is left out)
CallStatus ==
  IF store = 0 THEN [code |-> 404]
  ELSE [code |-> 200,
        callState |-> heap[store].callState,
        futureSelfAssistantId |-> heap[store].futureSelfAssistantId,
        voiceCloneReady |-> heap[store].voiceCloneCompleted]

\* a continuation resumed by a settled promise is running
Busy == \E o \in Owners : pc[o] \in {"created", "failed", "clearing"}


\* ---------------------------------------------------------------- Init
InitSession ==
  /\ store = 0
  /\ heap = [i \in {} |-> NullObj]
  /\ hA = 0
  /\ ref = [o \in Owners |-> 0]
  /\ pc = [o \in Owners |-> "idle"]
  /\ stateTimer = "unset"
  /\ fallbackSt = "unset"
  /\ pollInterval = "unset"
  /\ pollCeiling = "unset"
  /\ pollTicks = 0
  /\ readyTimers = 0
  /\ capture = "none"
  /\ hasAudio = FALSE
  /\ cloneTriggered = FALSE
  /\ cloneReq = "none"
  /\ callEnded = FALSE
  /\ creationRequests = 0
  /\ assistants = 0

\* no clone route has received a POST
InitRoutes == posts = <<>>

\* createFutureSelfAssistant has not been called
InitAssistant ==
  /\ aPc = "idle"
  /\ aCloned = FALSE
  /\ attempt = 0
  /\ vapiRequests = <<>>

\* no webhook has arrived: the session map and the registry are empty
NoResponse ==
  [status |-> 0, success |-> FALSE, routed |-> "none", errorLogged |-> FALSE,
   creation |-> FALSE]
InitWebhook ==
  /\ hasSession = FALSE
  /\ userName = Absent
  /\ problemDescription = NoText
  /\ transcripts = <<>>
  /\ clonedVoiceId = 0
  /\ voiceCloneCompleted = FALSE
  /\ clones = <<>>
  /\ audioCaptures = 0
  /\ request = "none"
  /\ response = NoResponse

\* createWAVFile and extractUserChannel have not been called
InitPure ==
  /\ audioData = <<>>
  /\ sampleRate = [hi |-> 0, lo |-> 0]
  /\ wavFile = [outcome |-> "none", bytes |-> <<>>]
  /\ audioChunks = <<>>
  /\ userAudio = [outcome |-> "none", bytes |-> <<>>]

\* ------------------------------------------------------- webhook: start
\* handleCallStarted.  createSession stores the new object, the 55 s timer
\* is set, the capture is created and connected when the event carries
\* call.monitor.listenUrl, the fallback timer is set and written with
\* updateSession.  `await audioCapture.connect(..)` resumes from a settled
\* promise, so the handler is one step.  The platform sends one
\* in-progress status-update per call.
HandleCallStarted(listen) ==
  /\ store = 0 /\ ~callEnded /\ ~Busy
  /\ store' = 1
  /\ heap' = [i \in {1} |-> [NewSession EXCEPT !.fallbackTimer = TimerHandle]]
  /\ stateTimer' = "pending"
  /\ fallbackSt' = "pending"
  /\ capture' = IF listen THEN "open" ELSE "none"
  /\ UNCHANGED <<hA, ref, pc, pollInterval, pollCeiling, pollTicks,
                 readyTimers, hasAudio, cloneTriggered, cloneReq, callEnded,
                 creationRequests, assistants>>
  /\ UNCHANGED <<cvars, rvars, avars, wvars, fvars>>

\* ------------------------------------------------------------ the timers
\* setTimeout(.., 55000): updateCallState(sessionId, 'preparing_interruption').
\* The 30 s fallback timer of the same handler expires first.
StateTimerFire ==
  /\ stateTimer = "pending" /\ fallbackSt # "pending" /\ ~Busy
  /\ stateTimer' = "fired"
  /\ heap' = UpdateCallState(heap, store, "preparing_interruption")
  /\ UNCHANGED <<store, hA, ref, pc, fallbackSt, pollInterval, pollCeiling,
                 pollTicks, readyTimers, capture, hasAudio, cloneTriggered,
                 cloneReq, callEnded, creationRequests, assistants>>
  /\ UNCHANGED <<cvars, rvars, avars, wvars, fvars>>

\* triggerFutureSelfCreation(sessionId) up to its first await, called by
\* continuation o: what it starts
TriggerStartsPoller(o) ==
  store # 0 /\ ~heap[store].futureSelfCreated /\ ~CloneReady(heap[store])
TriggerStartsCreation(o) ==
  store # 0 /\ ~heap[store].futureSelfCreated /\ CloneReady(heap[store])

\* the fallback timer callback: getSession, and triggerFutureSelfCreation
\* when the session exists and futureSelfCreated is false
FallbackTimerFire ==
  /\ fallbackSt = "pending" /\ ~Busy
  /\ fallbackSt' = "fired"
  /\ IF TriggerStartsPoller("fallback")
     THEN /\ pollInterval' = "active"
          /\ pollCeiling' = "pending"
          /\ UNCHANGED <<ref, pc, creationRequests>>
     ELSE IF TriggerStartsCreation("fallback")
     THEN /\ ref' = [ref EXCEPT !["fallback"] = store]
          /\ pc' = [pc EXCEPT !["fallback"] = "creating"]
          /\ creationRequests' = creationRequests + 1
          /\ UNCHANGED <<pollInterval, pollCeiling>>
     ELSE UNCHANGED <<ref, pc, creationRequests, pollInterval, pollCeiling>>
  /\ UNCHANGED <<store, heap, hA, stateTimer, pollTicks, readyTimers,
                 capture, hasAudio, cloneTriggered, cloneReq, callEnded,
                 assistants>>
  /\ UNCHANGED <<cvars, rvars, avars, wvars, fvars>>

\* a tick whose ready branch does not clear the interval
PollTick_NoClear ==
  /\ pollInterval = "active" /\ pollTicks < MaxPollTicks /\ ~Busy
  /\ IF store # 0 /\ CloneReady(heap[store])
     THEN /\ pollInterval' = pollInterval
          /\ ref' = [ref EXCEPT !["poller"] = store]
          /\ pc' = [pc EXCEPT !["poller"] = "creating"]
          /\ creationRequests' = creationRequests + 1
          /\ UNCHANGED pollTicks
     ELSE /\ pollTicks' = pollTicks + 1
          /\ UNCHANGED <<pollInterval, ref, pc, creationRequests>>
  /\ UNCHANGED <<store, heap, hA, stateTimer, fallbackSt, pollCeiling,
                 readyTimers, capture, hasAudio, cloneTriggered, cloneReq,
                 callEnded, assistants>>
  /\ UNCHANGED <<cvars, rvars, avars, wvars, fvars>>

\* one tick of the setInterval(.., 5000) callback; the ceiling clears the
\* interval before a tick that is due after it
PollTick ==
  /\ pollInterval = "active" /\ pollTicks < MaxPollTicks /\ ~Busy
  /\ IF store # 0 /\ CloneReady(heap[store])
     THEN /\ pollInterval' = "cleared"
          /\ ref' = [ref EXCEPT !["poller"] = store]
          /\ pc' = [pc EXCEPT !["poller"] = "creating"]
          /\ creationRequests' = creationRequests + 1
          /\ UNCHANGED pollTicks
     ELSE /\ pollTicks' = pollTicks + 1
          /\ UNCHANGED <<pollInterval, ref, pc, creationRequests>>
  /\ UNCHANGED <<store, heap, hA, stateTimer, fallbackSt, pollCeiling,
                 readyTimers, capture, hasAudio, cloneTriggered, cloneReq,
                 callEnded, assistants>>
  /\ UNCHANGED <<cvars, rvars, avars, wvars, fvars>>

\* setTimeout(.., 300000): clearInterval(pollInterval).  It expires when
\* the ticks due before it have run; the tick due at the same time runs
\* before or not at all.
PollCeilingFire ==
  /\ pollCeiling = "pending" /\ ~Busy
  /\ pollInterval = "cleared"
       \/ (pollTicks + 1) * PollIntervalMs >= PollCeilingMs
  /\ pollCeiling' = "fired"
  /\ pollInterval' = "cleared"
  /\ UNCHANGED <<store, heap, hA, ref, pc, stateTimer, fallbackSt, pollTicks,
                 readyTimers, capture, hasAudio, cloneTriggered, cloneReq,
                 callEnded, creationRequests, assistants>>
  /\ UNCHANGED <<cvars, rvars, avars, wvars, fvars>>

\* setTimeout(.., 5000): updateCallState(sessionId, 'ready_for_future_call')
ReadyTimerFire ==
  /\ readyTimers > 0 /\ ~Busy
  /\ readyTimers' = readyTimers - 1
  /\ heap' = UpdateCallState(heap, store, "ready_for_future_call")
  /\ UNCHANGED <<store, hA, ref, pc, stateTimer, fallbackSt, pollInterval,
                 pollCeiling, pollTicks, capture, hasAudio, cloneTriggered,
                 cloneReq, callEnded, creationRequests, assistants>>
  /\ UNCHANGED <<cvars, rvars, avars, wvars, fvars>>

\* ------------------------------------------------- the capture, abridged
\* A binary frame reaches handleMessage.  `elapsed` says that
\* (Date.now() - audioStartTime) / 1000 >= minSecondsForCloning; the anchor
\* is set by an earlier frame, and 30 s after the first frame is later than
\* the 30 s fallback timer set when the call started.  With the latch unset
\* the frame sets it and emits voiceCloneReady, whose handler starts the
\* fetch of the clone route.
CaptureFrame(elapsed) ==
  /\ capture = "open" /\ ~Busy
  /\ elapsed => (hasAudio /\ fallbackSt # "pending")
  /\ hasAudio' = TRUE
  /\ IF ~cloneTriggered /\ elapsed
     THEN cloneTriggered' = TRUE /\ cloneReq' = "inflight"
     ELSE UNCHANGED <<cloneTriggered, cloneReq>>
  /\ UNCHANGED <<store, heap, hA, ref, pc, stateTimer, fallbackSt,
                 pollInterval, pollCeiling, pollTicks, readyTimers, capture,
                 callEnded, creationRequests, assistants>>
  /\ UNCHANGED <<cvars, rvars, avars, wvars, fvars>>

\* manualTriggerVoiceCloning() on the registered capture
CaptureManualTrigger ==
  /\ capture = "open" /\ ~Busy
  /\ ~cloneTriggered /\ hasAudio
  /\ cloneTriggered' = TRUE
  /\ cloneReq' = "inflight"
  /\ UNCHANGED <<store, heap, hA, ref, pc, stateTimer, fallbackSt,
                 pollInterval, pollCeiling, pollTicks, readyTimers, capture,
                 hasAudio, callEnded, creationRequests, assistants>>
  /\ UNCHANGED <<cvars, rvars, avars, wvars, fvars>>

\* ------------------------------------------- the voiceCloneReady handler
\* a handler whose failure branches mark the stored session as failed
CloneResponseFail_MarksError(outcome) ==
  /\ cloneReq = "inflight" /\ ~Busy
  /\ cloneReq' = outcome
  /\ heap' = IF store = 0 THEN heap ELSE [heap EXCEPT ![store].status = "error"]
  /\ UNCHANGED <<store, hA, ref, pc, stateTimer, fallbackSt,
                 pollInterval, pollCeiling, pollTicks, readyTimers, capture,
                 hasAudio, cloneTriggered, callEnded, creationRequests,
                 assistants>>
  /\ UNCHANGED <<cvars, rvars, avars, wvars, fvars>>

\* The fetch ends without a usable answer: error status, abort after the
\* 15 minute timeout, or network error.  Each branch only logs.
CloneResponseFail(outcome) ==
  /\ cloneReq = "inflight" /\ ~Busy
  /\ cloneReq' = outcome
  /\ UNCHANGED <<store, heap, hA, ref, pc, stateTimer, fallbackSt,
                 pollInterval, pollCeiling, pollTicks, readyTimers, capture,
                 hasAudio, cloneTriggered, callEnded, creationRequests,
                 assistants>>
  /\ UNCHANGED <<cvars, rvars, avars, wvars, fvars>>

\* cloneResponse.ok: the clone id is written to the object getSession
\* returned (kept as currentSession), updateSession stores a copy, and
\* triggerFutureSelfCreation runs up to its await of the creation.
CloneResponseOk ==
  /\ cloneReq = "inflight" /\ ~Busy
  /\ cloneReq' = "ok"
  /\ IF store = 0
     THEN UNCHANGED <<store, heap, hA, ref, pc, creationRequests>>
     ELSE LET a  == store
              h1 == [heap EXCEPT ![a].clonedVoiceId = VoiceId,
                                 ![a].voiceCloneCompleted = TRUE]
              used == Live(store, hA, ref)
              b  == UpdStore(h1, store, a, used)
              h2 == UpdHeap(h1, store, a, used)
          IN /\ store' = b
             /\ hA' = a
             /\ IF h2[b].futureSelfCreated
                THEN /\ pc' = [pc EXCEPT !["handler"] = "clearing"]
                     /\ UNCHANGED <<ref, creationRequests>>
                     /\ heap' = Collect(h2, Live(b, a, ref))
                ELSE /\ pc' = [pc EXCEPT !["handler"] = "creating"]
                     /\ ref' = [ref EXCEPT !["handler"] = b]
                     /\ creationRequests' = creationRequests + 1
                     /\ heap' = Collect(h2, Live(b, a, ref'))
  /\ UNCHANGED <<stateTimer, fallbackSt, pollInterval, pollCeiling,
                 pollTicks, readyTimers, capture, hasAudio, cloneTriggered,
                 callEnded, assistants>>
  /\ UNCHANGED <<cvars, rvars, avars, wvars, fvars>>

\* -------------------------------------------- createFutureSelfForSession
\* createFutureSelfAssistant(session) settles for continuation o.  On
\* success the object the continuation holds gets the assistant id and
\* futureSelfCreated, and updateSession(session.id, session) writes it; a
\* failure is caught and logged.
CreateDone(o, ok) ==
  /\ pc[o] = "creating" /\ ~Busy
  /\ LET u == ref[o]
         r1 == [ref EXCEPT ![o] = 0]
     IN /\ ref' = r1
        /\ IF ok
           THEN LET h1 == [heap EXCEPT ![u].futureSelfAssistantId = assistants + 1,
                                       ![u].futureSelfCreated = TRUE]
                    used == Live(store, hA, ref)
                    n  == UpdStore(h1, store, u, used)
                    h2 == UpdHeap(h1, store, u, used)
                IN /\ store' = n
                   /\ heap' = Collect(h2, Live(n, hA, r1))
                   /\ assistants' = assistants + 1
                   /\ pc' = [pc EXCEPT ![o] = "created"]
           ELSE /\ heap' = Collect(heap, Live(store, hA, r1))
                /\ pc' = [pc EXCEPT ![o] = "failed"]
                /\ UNCHANGED <<store, assistants>>
  /\ UNCHANGED <<hA, stateTimer, fallbackSt, pollInterval, pollCeiling,
                 pollTicks, readyTimers, capture, hasAudio, cloneTriggered,
                 cloneReq, callEnded, creationRequests>>
  /\ UNCHANGED <<cvars, rvars, avars, wvars, fvars>>

\* triggerFutureSelfCreation after `await createFutureSelfForSession`:
\* updateCallState(.., 'interruption_delivered') and the 5 s timer
TriggerAfterCreate(o) ==
  /\ o \in {"handler", "fallback"}
  /\ pc[o] \in {"created", "failed"}
  /\ heap' = UpdateCallState(heap, store, "interruption_delivered")
  /\ readyTimers' = readyTimers + 1
  /\ pc' = [pc EXCEPT ![o] = IF o = "handler" THEN "clearing" ELSE "done"]
  /\ UNCHANGED <<store, hA, ref, stateTimer, fallbackSt, pollInterval,
                 pollCeiling, pollTicks, capture, hasAudio, cloneTriggered,
                 cloneReq, callEnded, creationRequests, assistants>>
  /\ UNCHANGED <<cvars, rvars, avars, wvars, fvars>>

\* the poll callback and handleCallEnded end after their await
ContinuationReturn(o) ==
  /\ o \in {"poller", "callend"}
  /\ pc[o] \in {"created", "failed"}
  /\ pc' = [pc EXCEPT ![o] = "done"]
  /\ UNCHANGED <<store, heap, hA, ref, stateTimer, fallbackSt, pollInterval,
                 pollCeiling, pollTicks, readyTimers, capture, hasAudio,
                 cloneTriggered, cloneReq, callEnded, creationRequests,
                 assistants>>
  /\ UNCHANGED <<cvars, rvars, avars, wvars, fvars>>

\* the handler after `await triggerFutureSelfCreation`: clearTimeout of
\* currentSession.fallbackTimer, the key set to undefined, and
\* updateSession(sessionId, currentSession)
HandlerClearFallback ==
  /\ pc["handler"] = "clearing"
  /\ pc' = [pc EXCEPT !["handler"] = "done"]
  /\ hA' = 0
  /\ IF heap[hA].fallbackTimer = TimerHandle
     THEN LET h1 == [heap EXCEPT ![hA].fallbackTimer = Undefined]
              used == Live(store, hA, ref)
              n  == UpdStore(h1, store, hA, used)
              h2 == UpdHeap(h1, store, hA, used)
          IN /\ store' = n
             /\ heap' = Collect(h2, Live(n, 0, ref))
             /\ fallbackSt' = IF fallbackSt = "pending" THEN "cleared"
                              ELSE fallbackSt
     ELSE /\ heap' = Collect(heap, Live(store, 0, ref))
          /\ UNCHANGED <<store, fallbackSt>>
  /\ UNCHANGED <<ref, stateTimer, pollInterval, pollCeiling, pollTicks,
                 readyTimers, capture, hasAudio, cloneTriggered, cloneReq,
                 callEnded, creationRequests, assistants>>
  /\ UNCHANGED <<cvars, rvars, avars, wvars, fvars>>

\* --------------------------------------------------------- webhook: end
\* handleCallEnded: the capture is disconnected and unregistered, the
\* fallback timer the session object holds is cleared, status becomes
\* 'processing' and is written with updateSession, and a last creation is
\* started when this object says the clone is ready and no persona exists.
HandleCallEnded ==
  /\ store # 0 /\ ~callEnded /\ ~Busy
  /\ callEnded' = TRUE
  /\ capture' = IF capture = "open" THEN "closed" ELSE capture
  /\ LET e  == store
         h1 == [heap EXCEPT ![e].status = "processing"]
         used == Live(store, hA, ref)
         n  == UpdStore(h1, store, e, used)
         h2 == UpdHeap(h1, store, e, used)
         final == ~h1[e].futureSelfCreated /\ CloneReady(h1[e])
         r1 == IF final THEN [ref EXCEPT !["callend"] = e] ELSE ref
     IN /\ store' = n
        /\ ref' = r1
        /\ heap' = Collect(h2, Live(n, hA, r1))
        /\ fallbackSt' = IF heap[e].fallbackTimer = TimerHandle
                            /\ fallbackSt = "pending"
                         THEN "cleared" ELSE fallbackSt
        /\ pc' = IF final THEN [pc EXCEPT !["callend"] = "creating"] ELSE pc
        /\ creationRequests' = IF final THEN creationRequests + 1
                               ELSE creationRequests
  /\ UNCHANGED <<hA, stateTimer, pollInterval, pollCeiling, pollTicks,
                 readyTimers, hasAudio, cloneTriggered, cloneReq, assistants>>
  /\ UNCHANGED <<cvars, rvars, avars, wvars, fvars>>

\* =============================================== the capture, in detail
DefaultMaxBufferSize == 1000
ForcedSampleRate == 48000
ChunkSizes == {640, 3840}
MetadataRates == {16000}
SockIds == 1..MaxSockets

\* new VapiAudioCapture(callId, sessionId, userName, cap): the field
\* initialisers and the constructor, which forces 48 kHz
Constructed(cap) ==
  /\ ws = 0
  /\ socks = [i \in SockIds |-> "none"]
  /\ connectCalled = FALSE
  /\ disconnectCalled = FALSE
  /\ maxBufferSize = cap
  /\ audioBuffer = <<>>
  /\ audioChunksReceived = 0
  /\ totalAudioBytes = 0
  /\ audioStartTime = -1
  /\ voiceCloneTriggered = FALSE
  /\ connectionTimeout = "null"
  /\ orphanTimeouts = 0
  /\ reconnectAttempts = 0
  /\ reconnectTimers = 0
  /\ reconnectDelay = 0
  /\ detectedSampleRate = ForcedSampleRate
  /\ sampleRateDetected = TRUE
  /\ chunkSizeHistory = <<>>
  /\ audioFormatFromMetadata = 0
  /\ now = 0
  /\ readyEmitted = 0
  /\ errorEmitted = 0

RECURSIVE SumSeq(_)
SumSeq(q) == IF q = <<>> THEN 0 ELSE Head(q) + SumSeq(Tail(q))
Abs(x) == IF x < 0 THEN -x ELSE x

\* analyzeAudioFormat: the history after the chunk
HistoryAfter(hist, len) ==
  IF len < 1000 THEN hist
  ELSE IF Len(hist) < 10 THEN Append(hist, len) ELSE hist

\* analyzeAudioFormat: does the detection branch run and find the sizes
\* consistent (every size within 50 of the average)
DetectionRuns(hist, len, detected) ==
  /\ len >= 1000
  /\ ~detected
  /\ Len(HistoryAfter(hist, len)) >= 5
  /\ LET h == HistoryAfter(hist, len)
     IN \A k \in 1..Len(h) : Abs(h[k] * Len(h) - SumSeq(h)) < 50 * Len(h)

\* analyzeAudioFormat: the rate of the band of the average chunk size
BandRate(h) ==
  LET n == Len(h)
      sum == SumSeq(h)
  IN IF Abs(sum - 3840 * n) < 50 * n THEN 48000
     ELSE IF Abs(sum - 1920 * n) < 50 * n THEN 24000
     ELSE IF Abs(sum - 1280 * n) < 50 * n THEN 24000
     ELSE IF Abs(sum - 640 * n) < 50 * n THEN 16000
     ELSE 48000

\* the buffer after a chunk is added (with size limit); shift() of an empty
\* array removes nothing
Shift(buf) == IF buf = <<>> THEN buf ELSE Tail(buf)
BufferAfter(buf, cap, data) ==
  IF Len(buf) < cap THEN Append(buf, data)
  ELSE Append(Shift(buf), data)

\* the socket the next connect() creates
FreeSock == CHOOSE i \in SockIds :
              socks[i] = "none" /\ \A j \in SockIds : socks[j] = "none" => i <= j

\* connect(listenUrl, timeoutMs): a new socket and a new timeout timer; the
\* timer the field held before keeps running
ConnectEffect ==
  /\ \E i \in SockIds : socks[i] = "none"
  /\ socks' = [socks EXCEPT ![FreeSock] = "connecting"]
  /\ ws' = FreeSock
  /\ connectionTimeout' = "pending"
  /\ orphanTimeouts' = IF connectionTimeout = "pending"
                       THEN orphanTimeouts + 1 ELSE orphanTimeouts

\* the owner's connect(call.monitor.listenUrl)
Connect ==
  /\ ~connectCalled
  /\ connectCalled' = TRUE
  /\ ConnectEffect
  /\ UNCHANGED <<maxBufferSize, audioBuffer, audioChunksReceived,
                 totalAudioBytes, audioStartTime, voiceCloneTriggered,
                 reconnectAttempts, reconnectTimers, reconnectDelay, detectedSampleRate,
                 sampleRateDetected, chunkSizeHistory,
                 audioFormatFromMetadata, now, readyEmitted, errorEmitted>>
  /\ UNCHANGED <<disconnectCalled, svars, rvars, avars, wvars, fvars>>

\* the timer of attemptReconnect
ReconnectTimerFire ==
  /\ reconnectTimers > 0
  /\ reconnectTimers' = reconnectTimers - 1
  /\ UNCHANGED reconnectDelay
  /\ ConnectEffect
  /\ UNCHANGED <<connectCalled, maxBufferSize, audioBuffer,
                 audioChunksReceived, totalAudioBytes, audioStartTime,
                 voiceCloneTriggered, reconnectAttempts, detectedSampleRate,
                 sampleRateDetected, chunkSizeHistory,
                 audioFormatFromMetadata, now, readyEmitted, errorEmitted>>
  /\ UNCHANGED <<disconnectCalled, svars, rvars, avars, wvars, fvars>>

\* ws.on('open')
SocketOpen(i) ==
  /\ socks[i] = "connecting"
  /\ socks' = [socks EXCEPT ![i] = "open"]
  /\ connectionTimeout' = "null"
  /\ reconnectAttempts' = 0
  /\ UNCHANGED <<ws, connectCalled, maxBufferSize, audioBuffer,
                 audioChunksReceived, totalAudioBytes, audioStartTime,
                 voiceCloneTriggered, orphanTimeouts, reconnectTimers, reconnectDelay,
                 detectedSampleRate, sampleRateDetected, chunkSizeHistory,
                 audioFormatFromMetadata, now, readyEmitted, errorEmitted>>
  /\ UNCHANGED <<disconnectCalled, svars, rvars, avars, wvars, fvars>>

\* the timer of connect(): terminate the current socket when it is still
\* connecting
ConnectionTimeoutFire(orphan) ==
  /\ IF orphan
     THEN /\ orphanTimeouts > 0
          /\ orphanTimeouts' = orphanTimeouts - 1
          /\ UNCHANGED connectionTimeout
     ELSE /\ connectionTimeout = "pending"
          /\ connectionTimeout' = "fired"
          /\ UNCHANGED orphanTimeouts
  /\ socks' = IF ws # 0 /\ socks[ws] = "connecting"
              THEN [socks EXCEPT ![ws] = "terminated"] ELSE socks
  /\ UNCHANGED <<ws, connectCalled, maxBufferSize, audioBuffer,
                 audioChunksReceived, totalAudioBytes, audioStartTime,
                 voiceCloneTriggered, reconnectAttempts, reconnectTimers, reconnectDelay,
                 detectedSampleRate, sampleRateDetected, chunkSizeHistory,
                 audioFormatFromMetadata, now, readyEmitted, errorEmitted>>
  /\ UNCHANGED <<disconnectCalled, svars, rvars, avars, wvars, fvars>>

\* attemptReconnect: the delay of the timer, computed from the counter
\* after its increment
RECURSIVE Pow2(_)
Pow2(n) == IF n = 0 THEN 1 ELSE 2 * Pow2(n - 1)
Min(a, b) == IF a < b THEN a ELSE b
ReconnectDelay_Linear(attempts) == Min(1000 * attempts, 10000)
ReconnectDelay(attempts) == Min(1000 * Pow2(attempts - 1), 10000)

\* ws.on('close'): the timeout is cleared and, after a closure that is not
\* normal, attemptReconnect counts the attempt and sets its timer
SocketClose(i, code) ==
  /\ socks[i] \in {"connecting", "open", "closing", "terminated"}
  /\ socks[i] \in {"connecting", "terminated"} => code = AbnormalClosure
  /\ socks' = [socks EXCEPT ![i] = "closed"]
  /\ connectionTimeout' = "null"
  /\ IF code # NormalClosure /\ reconnectAttempts < maxReconnectAttempts
     THEN /\ reconnectAttempts' = reconnectAttempts + 1
          /\ reconnectTimers' = reconnectTimers + 1
          /\ reconnectDelay' = ReconnectDelay(reconnectAttempts + 1)
     ELSE UNCHANGED <<reconnectAttempts, reconnectTimers, reconnectDelay>>
  /\ UNCHANGED <<ws, connectCalled, maxBufferSize, audioBuffer,
                 audioChunksReceived, totalAudioBytes, audioStartTime,
                 voiceCloneTriggered, orphanTimeouts, detectedSampleRate,
                 sampleRateDetected, chunkSizeHistory,
                 audioFormatFromMetadata, now, readyEmitted, errorEmitted>>
  /\ UNCHANGED <<disconnectCalled, svars, rvars, avars, wvars, fvars>>

\* triggerRealTimeVoiceCloning on buffer buf: 'voiceCloneReady' is emitted,
\* or 'voiceCloneError' when the buffer is empty or the extraction throws
TriggerRealTimeVoiceCloning(buf, throws) ==
  IF Len(buf) = 0 \/ throws
  THEN errorEmitted' = errorEmitted + 1 /\ UNCHANGED readyEmitted
  ELSE readyEmitted' = readyEmitted + 1 /\ UNCHANGED errorEmitted

\* handleMessage: the test of the time-based trigger, with the anchor
\* `start` and the clock t in seconds
ThresholdReached_NoWait(start, t) == t - start >= 0
ThresholdReached(start, t) == t - start >= minSecondsForCloning

\* handleMessage, binary frame of len bytes from socket i
HandleBinaryFrame(i, len, throws) ==
  /\ socks[i] \in {"open", "closing"}
  /\ audioChunksReceived < MaxFrames
  /\ LET hist == HistoryAfter(chunkSizeHistory, len)
         start == IF audioStartTime = -1 THEN now ELSE audioStartTime
         buf == BufferAfter(audioBuffer, maxBufferSize, len)
     IN /\ chunkSizeHistory' = hist
        /\ IF DetectionRuns(chunkSizeHistory, len, sampleRateDetected)
           THEN detectedSampleRate' = BandRate(hist) /\ sampleRateDetected' = TRUE
           ELSE UNCHANGED <<detectedSampleRate, sampleRateDetected>>
        /\ audioChunksReceived' = audioChunksReceived + 1
        /\ totalAudioBytes' = totalAudioBytes + len
        /\ audioStartTime' = start
        /\ audioBuffer' = buf
        /\ IF ~voiceCloneTriggered /\ ThresholdReached(start, now)
           THEN /\ voiceCloneTriggered' = TRUE
                /\ TriggerRealTimeVoiceCloning(buf, throws)
           ELSE /\ ~throws
                /\ UNCHANGED <<voiceCloneTriggered, readyEmitted, errorEmitted>>
  /\ UNCHANGED <<ws, socks, connectCalled, maxBufferSize, connectionTimeout,
                 orphanTimeouts, reconnectAttempts, reconnectTimers, reconnectDelay,
                 audioFormatFromMetadata, now>>
  /\ UNCHANGED <<disconnectCalled, svars, rvars, avars, wvars, fvars>>

\* handleMessage, text frame: JSON that carries sampleRate `rate` (other
\* text frames change nothing)
HandleTextFrame(i, rate) ==
  /\ socks[i] \in {"open", "closing"}
  /\ audioFormatFromMetadata' = rate
  /\ detectedSampleRate' = rate
  /\ sampleRateDetected' = TRUE
  /\ UNCHANGED <<ws, socks, connectCalled, maxBufferSize, audioBuffer,
                 audioChunksReceived, totalAudioBytes, audioStartTime,
                 voiceCloneTriggered, connectionTimeout, orphanTimeouts,
                 reconnectAttempts, reconnectTimers, reconnectDelay, chunkSizeHistory, now,
                 readyEmitted, errorEmitted>>
  /\ UNCHANGED <<disconnectCalled, svars, rvars, avars, wvars, fvars>>

\* manualTriggerVoiceCloning() without the test of the latch
ManualTriggerVoiceCloning_NoLatch(throws) ==
  /\ Len(audioBuffer) > 0
  /\ readyEmitted < 3
  /\ TriggerRealTimeVoiceCloning(audioBuffer, throws)
  /\ voiceCloneTriggered' = TRUE
  /\ UNCHANGED <<ws, socks, connectCalled, maxBufferSize, audioBuffer,
                 audioChunksReceived, totalAudioBytes, audioStartTime,
                 connectionTimeout, orphanTimeouts, reconnectAttempts,
                 reconnectTimers, reconnectDelay, detectedSampleRate, sampleRateDetected,
                 chunkSizeHistory, audioFormatFromMetadata, now>>
  /\ UNCHANGED <<disconnectCalled, svars, rvars, avars, wvars, fvars>>

\* manualTriggerVoiceCloning(): the extraction runs and the latch is set when
\* the latch is unset and the buffer holds a chunk; the other branch logs
\* only
ManualTriggerVoiceCloning(throws) ==
  IF ~voiceCloneTriggered /\ Len(audioBuffer) > 0
  THEN /\ TriggerRealTimeVoiceCloning(audioBuffer, throws)
       /\ voiceCloneTriggered' = TRUE
       /\ UNCHANGED <<ws, socks, connectCalled, maxBufferSize, audioBuffer,
                      audioChunksReceived, totalAudioBytes, audioStartTime,
                      connectionTimeout, orphanTimeouts, reconnectAttempts,
                      reconnectTimers, reconnectDelay, detectedSampleRate, sampleRateDetected,
                      chunkSizeHistory, audioFormatFromMetadata, now>>
       /\ UNCHANGED <<disconnectCalled, svars, rvars, avars, wvars, fvars>>
  ELSE /\ ~throws
       /\ UNCHANGED vars

\* disconnect(): the timeout is cleared, the socket is closed with code
\* 1000 and the field is set to null.  The owner has called connect() in
\* the callback that registered the capture.
Disconnect ==
  /\ connectCalled
  /\ connectionTimeout' = "null"
  /\ ws' = 0
  /\ socks' = IF ws = 0 THEN socks
              ELSE IF socks[ws] = "open" THEN [socks EXCEPT ![ws] = "closing"]
              ELSE IF socks[ws] = "connecting"
                   THEN [socks EXCEPT ![ws] = "terminated"]
              ELSE socks
  /\ UNCHANGED <<connectCalled, maxBufferSize, audioBuffer,
                 audioChunksReceived, totalAudioBytes, audioStartTime,
                 voiceCloneTriggered, orphanTimeouts, reconnectAttempts,
                 reconnectTimers, reconnectDelay, detectedSampleRate, sampleRateDetected,
                 chunkSizeHistory, audioFormatFromMetadata, now,
                 readyEmitted, errorEmitted>>
  /\ disconnectCalled' = TRUE
  /\ UNCHANGED <<svars, rvars, avars, wvars, fvars>>

\* time passes
Advance ==
  /\ now + TickSeconds <= MaxTime
  /\ now' = now + TickSeconds
  /\ UNCHANGED <<ws, socks, connectCalled, maxBufferSize, audioBuffer,
                 audioChunksReceived, totalAudioBytes, audioStartTime,
                 voiceCloneTriggered, connectionTimeout, orphanTimeouts,
                 reconnectAttempts, reconnectTimers, reconnectDelay, detectedSampleRate,
                 sampleRateDetected, chunkSizeHistory,
                 audioFormatFromMetadata, readyEmitted, errorEmitted>>
  /\ UNCHANGED <<disconnectCalled, svars, rvars, avars, wvars, fvars>>

InitCapture ==
  /\ InitSession
  /\ InitRoutes
  /\ InitAssistant
  /\ InitWebhook
  /\ InitPure
  /\ \E cap \in 0..MaxCapacity : Constructed(cap)

NextCapture ==
  \/ Connect
  \/ ReconnectTimerFire
  \/ \E i \in SockIds : SocketOpen(i)
  \/ \E orphan \in BOOLEAN : ConnectionTimeoutFire(orphan)
  \/ \E i \in SockIds, code \in {NormalClosure, AbnormalClosure} :
        SocketClose(i, code)
  \/ \E i \in SockIds, len \in ChunkSizes, throws \in BOOLEAN :
        HandleBinaryFrame(i, len, throws)
  \/ \E i \in SockIds, rate \in MetadataRates : HandleTextFrame(i, rate)
  \/ \E throws \in BOOLEAN : ManualTriggerVoiceCloning(throws)
  \/ Disconnect
  \/ Advance

SpecCapture == InitCapture /\ [][NextCapture]_vars

\* ----------------------------------- analyzeAudioFormat, chunk by chunk
\* the chunk sizes of the bands of analyzeAudioFormat
FormatSizes == {640, 1280, 1920, 3840}

\* analyzeAudioFormat(data) for a chunk of len bytes, as handleMessage
\* calls it for every binary frame
AnalyzeAudioFormat(len) ==
  /\ chunkSizeHistory' = HistoryAfter(chunkSizeHistory, len)
  /\ IF DetectionRuns(chunkSizeHistory, len, sampleRateDetected)
     THEN /\ detectedSampleRate' = BandRate(HistoryAfter(chunkSizeHistory, len))
          /\ sampleRateDetected' = TRUE
     ELSE UNCHANGED <<detectedSampleRate, sampleRateDetected>>
  /\ UNCHANGED <<ws, socks, connectCalled, maxBufferSize, audioBuffer,
                 audioChunksReceived, totalAudioBytes, audioStartTime,
                 voiceCloneTriggered, connectionTimeout, orphanTimeouts,
                 reconnectAttempts, reconnectTimers, reconnectDelay, audioFormatFromMetadata,
                 now, readyEmitted, errorEmitted>>
  /\ UNCHANGED <<disconnectCalled, svars, rvars, avars, wvars, fvars>>

NextFormat == \E len \in FormatSizes : AnalyzeAudioFormat(len)

\* ====================================================== the clone routes
\* The webhook's voiceCloneReady handler POSTs the sample to
\* /api/elevenlabs/clone-voice-realtime; the PlayHT route takes the same
\* form.  Every POST of the model carries the callId of the one call.
Routes == {"elevenlabs", "playht"}
PlayHTMinBytes == 5000
PlayHTMaxBytes == 50000000
ElevenLabsSmallBytes == 50000
\* audioBlob.size of a POST: a bare WAV header, and sizes around the limits
AudioSizes == {44, 4999, 5000, 49999, 50000}

\* the provider's smallest accepted sample, as the route's comment gives it
MinBytes(route) ==
  IF route = "playht" THEN PlayHTMinBytes ELSE ElevenLabsSmallBytes

\* POST up to the request to the provider: the HTTP status the route
\* returns at once, or 0 when it goes on to the provider.  The ElevenLabs
\* route only warns about the size.
EarlyStatus(route, fields, creds, size) ==
  IF ~fields THEN 400
  ELSE IF ~creds THEN 500
  ELSE IF route = "playht" /\ size < PlayHTMinBytes THEN 400
  ELSE IF route = "playht" /\ size > PlayHTMaxBytes THEN 400
  ELSE 0

\* a clone route receives a POST: `fields` says callId, userName and audio
\* are all present, `creds` that the provider's credentials are configured
ClonePost(route, fields, creds, size) ==
  /\ Len(posts) < MaxPosts
  /\ LET early == EarlyStatus(route, fields, creds, size)
     IN posts' = Append(posts, [route |-> route, size |-> size,
                                sent |-> early = 0,
                                st |-> IF early = 0 THEN "atProvider"
                                       ELSE "answered",
                                status |-> early])
  /\ UNCHANGED <<svars, cvars, avars, wvars, fvars>>

\* the provider request of POST k settles: a voice id (200); a body without
\* one, an error status, a timeout or no response (the route throws and
\* its catch answers 500)
ProviderSettles(k, voice) ==
  /\ k \in 1..Len(posts)
  /\ posts[k].st = "atProvider"
  /\ posts' = [posts EXCEPT ![k].st = "answered",
                            ![k].status = IF voice THEN 200 ELSE 500]
  /\ UNCHANGED <<svars, cvars, avars, wvars, fvars>>

NextRoutes ==
  \/ \E route \in Routes, fields \in BOOLEAN, creds \in BOOLEAN,
        size \in AudioSizes : ClonePost(route, fields, creds, size)
  \/ \E k \in 1..MaxPosts, voice \in BOOLEAN : ProviderSettles(k, voice)

\* ============================================= createFutureSelfAssistant
\* The ways a POST to api.vapi.ai/assistant settles: a 2xx answer with the
\* assistant's id, fetch rejecting, or an error status whose text includes
\* 'not found for provider playht', 'PlayHT Voice', both or neither.
Responses == {"ok", "network", "err_other", "err_notfound",
              "err_playhtvoice", "err_both"}
IncludesNotFound(r) == r \in {"err_notfound", "err_both"}
IncludesPlayHTVoice(r) == r \in {"err_playhtvoice", "err_both"}

\* the voice of assistantConfig
ConfigVoice == IF aCloned THEN "cloned" ELSE "default"

\* the call up to the retry loop: VAPI_API_KEY and, for a cloned voice, the
\* PlayHT credentials must be set; verifyPlayHTVoice and the 15 s wait
\* change nothing
CreateAssistantStart(cloned, apiKey, creds) ==
  /\ aPc = "idle"
  /\ aCloned' = cloned
  /\ IF ~apiKey \/ (cloned /\ ~creds)
     THEN aPc' = "thrown" /\ UNCHANGED attempt
     ELSE aPc' = "attempt" /\ attempt' = 1
  /\ UNCHANGED vapiRequests
  /\ UNCHANGED <<svars, cvars, rvars, wvars, fvars>>

\* one pass of the retry loop: the request with assistantConfig settles
\* with r.  A throw inside the try is caught by the loop's own catch.
LoopAttempt(r) ==
  /\ aPc = "attempt"
  /\ vapiRequests' = Append(vapiRequests, [voice |-> ConfigVoice, resp |-> r])
  /\ IF r = "ok"
     THEN aPc' = "returned" /\ UNCHANGED attempt
     ELSE IF r # "network" /\ aCloned /\ IncludesNotFound(r)
             /\ attempt = maxRetries
     THEN aPc' = "loopFallback" /\ UNCHANGED attempt
     ELSE IF attempt < maxRetries
     THEN attempt' = attempt + 1 /\ UNCHANGED aPc
     ELSE aPc' = "post" /\ UNCHANGED attempt
  /\ UNCHANGED aCloned
  /\ UNCHANGED <<svars, cvars, rvars, wvars, fvars>>

\* the default-voice request of the last pass settles with r; its throw is
\* caught by the loop's catch and the loop ends
LoopFallback(r) ==
  /\ aPc = "loopFallback"
  /\ vapiRequests' = Append(vapiRequests, [voice |-> "default", resp |-> r])
  /\ aPc' = IF r = "ok" THEN "returned" ELSE "post"
  /\ UNCHANGED <<aCloned, attempt>>
  /\ UNCHANGED <<svars, cvars, rvars, wvars, fvars>>

\* after the loop: one more request with assistantConfig settles with r
PostAttempt(r) ==
  /\ aPc = "post"
  /\ vapiRequests' = Append(vapiRequests, [voice |-> ConfigVoice, resp |-> r])
  /\ aPc' = IF r = "ok" THEN "returned"
            ELSE IF r # "network" /\ aCloned /\ IncludesPlayHTVoice(r)
            THEN "postFallback"
            ELSE "thrown"
  /\ UNCHANGED <<aCloned, attempt>>
  /\ UNCHANGED <<svars, cvars, rvars, wvars, fvars>>

\* the default-voice request after the loop settles with r
PostFallback(r) ==
  /\ aPc = "postFallback"
  /\ vapiRequests' = Append(vapiRequests, [voice |-> "default", resp |-> r])
  /\ aPc' = IF r = "ok" THEN "returned" ELSE "thrown"
  /\ UNCHANGED <<aCloned, attempt>>
  /\ UNCHANGED <<svars, cvars, rvars, wvars, fvars>>

NextAssistant ==
  \/ \E cloned \in BOOLEAN, apiKey \in BOOLEAN, creds \in BOOLEAN :
        CreateAssistantStart(cloned, apiKey, creds)
  \/ \E r \in Responses : LoopAttempt(r)
  \/ \E r \in Responses : LoopFallback(r)
  \/ \E r \in Responses : PostAttempt(r)
  \/ \E r \in Responses : PostFallback(r)

\* ================================================== the webhook's POST
\* Part 5 (SpecWebhook): POST of the webhook route with its validation and
\* its switch, and what handleCallStarted, handleConversationUpdate,
\* handleTranscript and handleCallEnded do to the texts of one session.
\* The handlers run to completion between two POSTs: none of them awaits
\* before its last write of these fields.

RecognizedTypes ==
  {"status-update", "conversation-update", "speech-update", "transcript",
   "user-interrupted", "end-of-call-report"}
UnknownType == "hang"           \* a string the switch has no case for
TypeNumber == "(number)"        \* a type that is not a string

\* The utterances (Text, in the vocabulary):
\*   name1    "my name is Alice"          name2  "my name is Bob"
\*   problem1 a sentence of 60 characters empty  ""
CoreLength == [name1 |-> 16, name2 |-> 14, problem1 |-> 60, empty |-> 0]
Length(t) == CoreLength[t.core] + (IF t.pad THEN 2 ELSE 0)
Trim(t) == [t EXCEPT !.pad = FALSE]
Truthy(t) == t # NoText /\ Length(t) > 0
\* content.match(/my name is (\w+)|i'm (\w+)|i am (\w+)|call me (\w+)/i)
NameMatch(t) ==
  CASE t.core = "name1" -> "Alice"
    [] t.core = "name2" -> "Bob"
    [] OTHER -> Absent

Texts ==
  {Text("name1", FALSE), Text("name1", TRUE), Text("name2", FALSE),
   Text("problem1", FALSE), Text("empty", TRUE)}
Msg(role, content) == [role |-> role, content |-> content]
Messages ==
  {Msg("user", t) : t \in (Texts \ {Text("empty", TRUE)}) \cup {NoText}}
    \cup {Msg("assistant", Text("name1", FALSE))}
Conversations ==
  UNION {[1..n -> Messages] : n \in 0..MaxConversation}

\* The JSON body of a POST.  body: how the text parses; message: the
\* message field; flatType: a type at the top level; the rest: the fields
\* of the event.
Base ==
  [body |-> "object", message |-> "object", flatType |-> Absent,
   type |-> Absent, status |-> Absent, call |-> "none", role |-> Absent,
   transcript |-> NoText, conversation |-> <<>>]
EventPayloads ==
  {[Base EXCEPT !.type = "status-update", !.status = st, !.call = c] :
      st \in {"in-progress", "ended"}, c \in {"none", "call", "monitored"}}
  \cup {[Base EXCEPT !.type = "conversation-update"]}
  \cup {[Base EXCEPT !.type = "conversation-update", !.call = "call",
                     !.conversation = conv] : conv \in Conversations}
  \cup {[Base EXCEPT !.type = t] :
          t \in {"speech-update", "user-interrupted", UnknownType}}
  \cup {[Base EXCEPT !.type = "transcript", !.call = c, !.role = r] :
          c \in {"none", "call"}, r \in {Absent, "user"}}
  \cup {[Base EXCEPT !.type = "transcript", !.role = "user",
                     !.transcript = Text("name1", FALSE)]}
  \cup {[Base EXCEPT !.type = "transcript", !.call = "call", !.role = r,
                     !.transcript = t] :
          r \in {"user", "assistant"}, t \in Texts}
  \cup {[Base EXCEPT !.type = "end-of-call-report", !.call = c] :
          c \in {"none", "call"}}
\* the body does not parse, is null, is a number; the message is missing,
\* null or a string; the type is missing, empty or a number
MalformedPayloads ==
  {[Base EXCEPT !.body = b, !.message = Absent] :
      b \in {"unparsable", "null", "primitive"}}
  \cup {[Base EXCEPT !.message = m] : m \in {Absent, "null", "primitive"}}
  \cup {[Base EXCEPT !.type = t, !.call = "call"] :
          t \in {Absent, "", TypeNumber}}
\* the earlier envelope: { type, call, data } without a message field
Flat(e) == [e EXCEPT !.message = Absent, !.flatType = e.type,
                     !.type = Absent]
Wrapped(p) == [p EXCEPT !.message = "object", !.type = p.flatType,
                        !.flatType = Absent]
FlatPayloads ==
  {Flat(e) : e \in {q \in EventPayloads :
                      /\ q.type \in RecognizedTypes
                      /\ Len(q.conversation) <= 1
                      /\ q.transcript \in {NoText, Text("name1", FALSE)}}}
Payloads == EventPayloads \cup MalformedPayloads \cup FlatPayloads

\* what a payload is, by its shape: malformed (no JSON, not an object, no
\* message and no type, a type that is missing, empty or not a string),
\* the flat envelope, or an event with a type the switch has a case for
\* or not
Kind(p) ==
  IF p.body # "object" \/ p.message \in {"null", "primitive"}
  THEN "malformed"
  ELSE IF p.message = Absent
  THEN IF p.flatType \in RecognizedTypes THEN "flat" ELSE "malformed"
  ELSE IF p.type \in {Absent, "", TypeNumber} THEN "malformed"
  ELSE IF p.type \in RecognizedTypes THEN "recognized"
  ELSE "unrecognized"

\* POST before its switch: the status of the early response, 0 when the
\* payload reaches the switch
Rejection(p) ==
  IF p.body = "unparsable" THEN 400       \* SyntaxError, caught
  ELSE IF p.body = "null" THEN 500        \* Object.keys(null) throws
  ELSE IF p.body = "primitive" THEN 400   \* body.message is undefined
  ELSE IF p.message \in {Absent, "null"} THEN 400
  ELSE IF p.message = "primitive" THEN 400    \* its type is undefined
  ELSE IF p.type \in {Absent, "", TypeNumber} THEN 400
  ELSE 0

\* the switch run on whatever type the body shows, in the message or at
\* the top level, without the validation before it
Routed_Unvalidated(p) ==
  LET e == IF p.message = Absent THEN Wrapped(p) ELSE p
  IN CASE e.type = "status-update" /\ e.status = "in-progress"
            /\ e.call # "none" -> "handleCallStarted"
       [] e.type = "conversation-update" /\ e.call # "none"
            -> "handleConversationUpdate"
       [] e.type = "transcript" /\ e.role # Absent
            /\ Truthy(e.transcript) /\ e.call # "none"
            -> "handleTranscript"
       [] e.type = "end-of-call-report" /\ e.call # "none"
            -> "handleCallEnded"
       [] OTHER -> "none"

\* POST, the switch: the handler the event is given to
Routed(p) ==
  IF Rejection(p) # 0 THEN "none"
  ELSE CASE p.type = "status-update" /\ p.status = "in-progress"
              /\ p.call # "none" -> "handleCallStarted"
         [] p.type = "conversation-update" /\ p.call # "none"
              -> "handleConversationUpdate"
         [] p.type = "transcript" /\ p.role # Absent
              /\ Truthy(p.transcript) /\ p.call # "none"
              -> "handleTranscript"
         [] p.type = "end-of-call-report" /\ p.call # "none"
              -> "handleCallEnded"
         [] OTHER -> "none"

\* handleConversationUpdate, the first loop: the transcripts after the
\* messages of the conversation
RECURSIVE PushAll(_, _)
PushAll(ts, conv) ==
  IF conv = <<>> THEN ts
  ELSE LET msg == Head(conv)
           exists == \E k \in 1..Len(ts) :
                        ts[k].text = msg.content /\ ts[k].role = msg.role
           next == IF ~exists /\ Truthy(msg.content)
                      /\ Length(Trim(msg.content)) > 0
                   THEN Append(ts, [role |-> msg.role,
                                    text |-> Trim(msg.content)])
                   ELSE ts
       IN PushAll(next, Tail(conv))

\* handleConversationUpdate, the second loop over the messages of the
\* user: the name and the problem it leaves, and whether reading
\* content.length of a message without content threw
RECURSIVE Extract(_, _, _)
Extract(name, problem, conv) ==
  IF conv = <<>> THEN [name |-> name, problem |-> problem, thrown |-> FALSE]
  ELSE LET msg == Head(conv)
       IN IF msg.role # "user" THEN Extract(name, problem, Tail(conv))
          ELSE IF msg.content = NoText /\ (name = Absent \/ problem = NoText)
          THEN [name |-> name, problem |-> problem, thrown |-> TRUE]
          ELSE LET n == IF name = Absent /\ Length(msg.content) > 0
                           /\ NameMatch(msg.content) # Absent
                        THEN NameMatch(msg.content) ELSE name
                   d == IF problem = NoText /\ Length(msg.content) > 50
                        THEN msg.content ELSE problem
               IN Extract(n, d, Tail(conv))

\* handleTranscript: the transcripts after the event
PushTranscript(ts, role, transcript) ==
  LET t == Trim(transcript)
      exists == \E k \in 1..Len(ts) : ts[k].text = t /\ ts[k].role = role
  IN IF exists THEN ts ELSE Append(ts, [role |-> role, text |-> t])

\* a capture as handleCallStarted constructs and connects it
NewCapture == [cap |-> "open", req |-> "none"]

\* What was thrown inside a handler does not reach POST: the bodies of
\* handleCallStarted, handleConversationUpdate and handleTranscript sit in
\* a try whose catch logs, connect() catches the failure of the socket's
\* construction, and createFutureSelfForSession, the one call of
\* handleCallEnded that can fail, catches by itself.
Escapes_NoCatch(thrown) == thrown
Escapes(thrown) == FALSE

\* handleCallEnded: the last attempt to create the persona is made for a
\* session that is in the store and has its clone (whether a persona was
\* created before is not kept in this part, so the attempt is counted for
\* every such session)
FinalCreation == hasSession /\ voiceCloneCompleted /\ clonedVoiceId # 0

\* getSession(sessionId) of handleConversationUpdate and handleTranscript:
\* is there a session to update
SessionFound_Always == TRUE
SessionFound == hasSession

\* POST of the webhook route with payload p; fails: the step inside the
\* handler that depends on the outside fails (the construction of the
\* socket at call start, the creation of the persona at call end)
WebhookPost(p, fails) ==
  LET h == Routed(p)
      ex == Extract(userName, problemDescription, p.conversation)
      thrown == IF h = "handleConversationUpdate" THEN hasSession /\ ex.thrown
                ELSE IF h = "handleCallStarted" THEN fails
                ELSE IF h = "handleCallEnded" THEN fails /\ FinalCreation
                ELSE FALSE
      status == IF Rejection(p) # 0 THEN Rejection(p)
                ELSE IF Escapes(thrown) THEN 500 ELSE 200
  IN /\ h \notin {"handleCallStarted", "handleCallEnded"} => ~fails
     /\ request' = Kind(p)
     /\ response' = [status |-> status, success |-> status = 200,
                     routed |-> h, errorLogged |-> thrown,
                     creation |-> h = "handleCallEnded" /\ FinalCreation]
     /\ CASE h = "handleCallStarted" ->
               \* createSession stores a fresh session under the id
               /\ hasSession' = TRUE
               /\ userName' = Absent
               /\ problemDescription' = NoText
               /\ transcripts' = <<>>
               /\ clonedVoiceId' = 0
               /\ voiceCloneCompleted' = FALSE
               \* with a listenUrl: a new capture, which takes the place
               \* of the one the registry held
               /\ IF p.call = "monitored"
                  THEN /\ Len(clones) < MaxCaptures
                       /\ clones' = Append(clones, NewCapture)
                       /\ audioCaptures' = Len(clones) + 1
                  ELSE UNCHANGED <<clones, audioCaptures>>
          [] h = "handleConversationUpdate" /\ SessionFound ->
               /\ Len(transcripts) + Len(p.conversation) <= MaxTranscripts
               /\ transcripts' = PushAll(transcripts, p.conversation)
               /\ userName' = ex.name
               /\ problemDescription' = ex.problem
               /\ UNCHANGED <<hasSession, clonedVoiceId,
                              voiceCloneCompleted, clones, audioCaptures>>
          [] h = "handleTranscript" /\ SessionFound ->
               /\ Len(transcripts) < MaxTranscripts
               /\ transcripts' =
                    PushTranscript(transcripts, p.role, p.transcript)
               /\ userName' =
                    IF p.role = "user" /\ userName = Absent
                       /\ NameMatch(Trim(p.transcript)) # Absent
                    THEN NameMatch(Trim(p.transcript)) ELSE userName
               /\ problemDescription' =
                    IF p.role = "user" /\ problemDescription = NoText
                       /\ Length(Trim(p.transcript)) > 50
                    THEN Trim(p.transcript) ELSE problemDescription
               /\ UNCHANGED <<hasSession, clonedVoiceId,
                              voiceCloneCompleted, clones, audioCaptures>>
          [] h = "handleCallEnded" ->
               \* the capture of the registry is disconnected and removed
               /\ clones' = IF audioCaptures = 0 THEN clones
                            ELSE [clones EXCEPT ![audioCaptures].cap =
                                                   "disconnected"]
               /\ audioCaptures' = 0
               /\ UNCHANGED <<hasSession, userName, problemDescription,
                              transcripts, clonedVoiceId,
                              voiceCloneCompleted>>
          [] OTHER ->
               UNCHANGED <<hasSession, userName, problemDescription,
                           transcripts, clonedVoiceId, voiceCloneCompleted,
                           clones, audioCaptures>>
  /\ UNCHANGED <<svars, cvars, rvars, avars, fvars>>

NextWebhook == \E p \in Payloads, fails \in BOOLEAN : WebhookPost(p, fails)

\* ------------------------------------ the clone requests of the captures
\* Capture k emits voiceCloneReady (once, by its latch) and the handler
\* that handleCallStarted registered on it posts the audio to the clone
\* route.
VoiceCloneReady(k) ==
  /\ k \in 1..Len(clones)
  /\ clones[k] = NewCapture
  /\ clones' = [clones EXCEPT ![k].req = "inflight"]
  /\ UNCHANGED <<hasSession, userName, problemDescription, transcripts,
                 clonedVoiceId, voiceCloneCompleted, audioCaptures, request,
                 response>>
  /\ UNCHANGED <<svars, cvars, rvars, avars, fvars>>

\* The fetch of capture k's handler settles.  cloneResponse.ok: the voice
\* the provider made for this request is written to the session that
\* getSession(sessionId) returns now.
CloneResponse(k, ok) ==
  /\ k \in 1..Len(clones)
  /\ clones[k].req = "inflight"
  /\ clones' = [clones EXCEPT ![k].req = IF ok THEN "ok" ELSE "failed"]
  /\ IF ok /\ hasSession
     THEN clonedVoiceId' = k /\ voiceCloneCompleted' = TRUE
     ELSE UNCHANGED <<clonedVoiceId, voiceCloneCompleted>>
  /\ UNCHANGED <<hasSession, userName, problemDescription, transcripts,
                 audioCaptures, request, response>>
  /\ UNCHANGED <<svars, cvars, rvars, avars, fvars>>

\* the events of the call's life cycle
LifecyclePayloads ==
  {p \in EventPayloads : p.type \in {"status-update", "end-of-call-report"}}

NextClones ==
  \/ \E p \in LifecyclePayloads, fails \in BOOLEAN : WebhookPost(p, fails)
  \/ \E k \in 1..MaxCaptures : VoiceCloneReady(k)
  \/ \E k \in 1..MaxCaptures, ok \in BOOLEAN : CloneResponse(k, ok)

\* ======================================= createWAVFile, extractUserChannel
\* Part 6 (SpecWav, SpecChannel): the two functions that turn the buffer
\* into the file that is sent, applied to inputs drawn by Init.
\*
\* A number that may not fit 31 bits is kept as two 16-bit halves.
W(hi, lo) == [hi |-> hi, lo |-> lo]
Wide(n) == W(n \div 65536, n % 65536)
WMul(w, m) ==
  LET l == w.lo * m IN W(w.hi * m + l \div 65536, l % 65536)
WDiv(w, d) ==
  W(w.hi \div d, ((w.hi % d) * 65536 + w.lo) \div d)

\* the inputs: PCM bytes, and sample rates up to 2^32
PcmBytes == {0, 255}
PcmInputs == UNION {[1..n -> PcmBytes] : n \in 0..MaxPcmBytes}
SampleRates ==
  {Wide(8000), Wide(16000), Wide(24000), Wide(48000),
   W(32767, 65535), W(32768, 0), W(65535, 65535), W(65536, 0)}

\* header.write('RIFF', 0) and the like: the character codes
Ascii(s) ==
  CASE s = "RIFF" -> <<82, 73, 70, 70>>
    [] s = "WAVE" -> <<87, 65, 86, 69>>
    [] s = "fmt " -> <<102, 109, 116, 32>>
    [] s = "data" -> <<100, 97, 116, 97>>

\* Buffer.writeUInt32LE / writeUInt16LE: the bytes written; a value out of
\* the range of the field makes the call throw a RangeError
InRange32(w) == w.hi < 65536
WriteUInt32LE_BigEndian(w) ==
  <<w.hi \div 256, w.hi % 256, w.lo \div 256, w.lo % 256>>
WriteUInt32LE(w) ==
  <<w.lo % 256, w.lo \div 256, w.hi % 256, w.hi \div 256>>
WriteUInt16LE(n) == <<n % 256, n \div 256>>
\* the reader's side of the same fields, at (0-based) offset off
ReadUInt32LE(b, off) ==
  W(b[off + 3] + 256 * b[off + 4], b[off + 1] + 256 * b[off + 2])
ReadUInt16LE(b, off) == b[off + 1] + 256 * b[off + 2]

NoResult == [outcome |-> "none", bytes |-> <<>>]
Returned(b) == [outcome |-> "returned", bytes |-> b]
Thrown(e) == [outcome |-> e, bytes |-> <<>>]

\* createWAVFile(audioData, sampleRate)
CreateWAVFileResult(data, rate) ==
  LET channels == 1
      bitsPerSample == 16
      dataSize == Len(data)
      riffSize == Wide(36 + dataSize)
      byteRate == WDiv(WMul(rate, channels * bitsPerSample), 8)
      blockAlign == (channels * bitsPerSample) \div 8
  IN IF ~InRange32(riffSize) \/ ~InRange32(rate) \/ ~InRange32(byteRate)
     THEN Thrown("RangeError")
     ELSE Returned(Ascii("RIFF") \o WriteUInt32LE(riffSize)
                   \o Ascii("WAVE")
                   \o Ascii("fmt ") \o WriteUInt32LE(Wide(16))
                   \o WriteUInt16LE(1) \o WriteUInt16LE(channels)
                   \o WriteUInt32LE(rate) \o WriteUInt32LE(byteRate)
                   \o WriteUInt16LE(blockAlign)
                   \o WriteUInt16LE(bitsPerSample)
                   \o Ascii("data") \o WriteUInt32LE(Wide(dataSize))
                   \o data)

CreateWAVFile ==
  /\ wavFile = NoResult
  /\ wavFile' = CreateWAVFileResult(audioData, sampleRate)
  /\ UNCHANGED <<audioData, sampleRate, audioChunks, userAudio>>
  /\ UNCHANGED <<svars, cvars, rvars, avars, wvars>>

InitWav ==
  /\ InitSession /\ Constructed(DefaultMaxBufferSize) /\ InitRoutes
  /\ InitAssistant /\ InitWebhook
  /\ audioData \in PcmInputs
  /\ sampleRate \in SampleRates
  /\ wavFile = NoResult
  /\ audioChunks = <<>>
  /\ userAudio = NoResult

NextWav == CreateWAVFile
SpecWav == InitWav /\ [][NextWav]_vars

\* ------------------------------------------------- extractUserChannel
\* the chunks of the buffer: byte sequences (chunk.byteOffset is taken to
\* be even, as Int16Array asks)
ChunkBytes == {0, 1}
Chunks == UNION {[1..n -> ChunkBytes] : n \in 0..MaxChunkBytes}
ChunkLists == UNION {[1..n -> Chunks] : n \in 0..MaxChunks}

\* new Int16Array(buffer, offset, length): the 16-bit little-endian
\* samples of the bytes, as many as the length, cut to a whole number
Int16(lo, hi) ==
  LET u == lo + 256 * hi IN IF u >= 32768 THEN u - 65536 ELSE u
Samples(b) == [i \in 1..(Len(b) \div 2) |-> Int16(b[2 * i - 1], b[2 * i])]
\* Buffer.from(int16Array.buffer): the bytes of the samples
RECURSIVE SampleBytes(_)
SampleBytes(q) ==
  IF q = <<>> THEN <<>>
  ELSE LET u == Head(q) % 65536
       IN <<u % 256, u \div 256>> \o SampleBytes(Tail(q))

\* the loop of extractUserChannel over one chunk: userSamples has room for
\* samples.length / 2 samples, cut to a whole number, and a write past
\* its end is dropped
UserSamples(samples) ==
  [j \in 1..(Len(samples) \div 2) |-> samples[2 * j - 1]]

\* extractUserChannel(audioChunks)
RECURSIVE ExtractUserChannel(_)
ExtractUserChannel(chunks) ==
  IF chunks = <<>> THEN <<>>
  ELSE SampleBytes(UserSamples(Samples(Head(chunks))))
         \o ExtractUserChannel(Tail(chunks))

ExtractUserChannelCall ==
  /\ userAudio = NoResult
  /\ userAudio' = Returned(ExtractUserChannel(audioChunks))
  /\ UNCHANGED <<audioData, sampleRate, wavFile, audioChunks>>
  /\ UNCHANGED <<svars, cvars, rvars, avars, wvars>>

InitChannel ==
  /\ InitSession /\ Constructed(DefaultMaxBufferSize) /\ InitRoutes
  /\ InitAssistant /\ InitWebhook
  /\ audioData = <<>>
  /\ sampleRate = Wide(0)
  /\ wavFile = NoResult
  /\ audioChunks \in ChunkLists
  /\ userAudio = NoResult

NextChannel == ExtractUserChannelCall
SpecChannel == InitChannel /\ [][NextChannel]_vars

\* ------------------------------------------------------------------ Next
Next ==
  \/ \E listen \in BOOLEAN : HandleCallStarted(listen)
  \/ StateTimerFire
  \/ FallbackTimerFire
  \/ PollTick
  \/ PollCeilingFire
  \/ ReadyTimerFire
  \/ \E elapsed \in BOOLEAN : CaptureFrame(elapsed)
  \/ CaptureManualTrigger
  \/ \E outcome \in {"http_error", "aborted", "network_error"} :
        CloneResponseFail(outcome)
  \/ CloneResponseOk
  \/ \E o \in Owners, ok \in BOOLEAN : CreateDone(o, ok)
  \/ \E o \in Owners : TriggerAfterCreate(o)
  \/ \E o \in Owners : ContinuationReturn(o)
  \/ HandlerClearFallback
  \/ HandleCallEnded

Init ==
  /\ InitSession /\ Constructed(DefaultMaxBufferSize) /\ InitRoutes
  /\ InitAssistant /\ InitWebhook /\ InitPure

Spec == Init /\ [][Next]_vars

\* the clone routes and createFutureSelfAssistant, each on its own
SpecRoutes == Init /\ [][NextRoutes]_vars
SpecAssistant == Init /\ [][NextAssistant]_vars
SpecWebhook == Init /\ [][NextWebhook]_vars
SpecClones == Init /\ [][NextClones]_vars
\* a constructed capture that is given chunks and no metadata
SpecFormat == Init /\ [][NextFormat]_vars

\* Timers expire and requests settle; the platform's events and the audio
\* frames are not forced.
FairSpec ==
  /\ Spec
  /\ WF_vars(StateTimerFire)
  /\ WF_vars(FallbackTimerFire)
  /\ WF_vars(PollTick)
  /\ WF_vars(PollCeilingFire)
  /\ WF_vars(ReadyTimerFire)
  /\ WF_vars(CloneResponseOk
             \/ \E outcome \in {"http_error", "aborted", "network_error"} :
                   CloneResponseFail(outcome))
  /\ \A o \in Owners : WF_vars(\E ok \in BOOLEAN : CreateDone(o, ok))
  /\ \A o \in Owners : WF_vars(TriggerAfterCreate(o))
  /\ \A o \in Owners : WF_vars(ContinuationReturn(o))
  /\ WF_vars(HandlerClearFallback)

\* ================================================================ claims
Rank(cs) == CHOOSE i \in 1..4 : CallStates[i] = cs

\* C1: over any interleaving of the clone-complete handler, the fallback
\* timer, the poller and the call-end handler at most one persona is
\* created for the session.
C1_AtMostOnePersona == assistants <= 1

\* C2: once the stored session's futureSelfCreated is true it stays true,
\* and no creation is started for the session afterwards.
C2_CreatedIsStable ==
  [][Stored.futureSelfCreated =>
       (Stored'.futureSelfCreated /\ creationRequests' = creationRequests)]_vars

\* C3: the voice-clone handler's last write (clearing fallbackTimer)
\* changes no field of the stored session other than fallbackTimer.
C3_LastWriteOnlyClearsTimer ==
  [][pc["handler"] = "clearing" =>
       [Stored' EXCEPT !.fallbackTimer = Absent]
         = [Stored EXCEPT !.fallbackTimer = Absent]]_vars

\* C5: when the fallback timer fires and the clone has not completed, a
\* persona-creation request is issued at that point.
C5_FallbackCreatesAtOnce ==
  [][(fallbackSt = "pending" /\ fallbackSt' = "fired" /\ store # 0
        /\ ~Stored.voiceCloneCompleted)
       => creationRequests' = creationRequests + 1]_vars

\* C6: every session that received a call-start event eventually has a
\* persona (futureSelfCreated with an assistant id).
C6_PersonaEventually ==
  (store # 0) ~> (Stored.futureSelfCreated /\ Stored.futureSelfAssistantId # 0)

\* C7: after the call-end event has been handled no timer callback changes
\* the session or starts a persona creation.
TimerCallback ==
  StateTimerFire \/ FallbackTimerFire \/ PollTick \/ PollCeilingFire
    \/ ReadyTimerFire
C7_NoTimerAfterCallEnd ==
  [][(callEnded /\ TimerCallback) =>
       (Stored' = Stored /\ creationRequests' = creationRequests)]_vars

\* C8: callState only moves forward along onboarding,
\* preparing_interruption, interruption_delivered, ready_for_future_call.
C8_CallStateForward ==
  [][(store # 0 /\ store' # 0) =>
       Rank(Stored'.callState) >= Rank(Stored.callState)]_vars

\* C9: a failed persona creation on the trigger path leaves callState
\* unchanged (interruption_delivered is set only after a success).
C9_FailedCreationKeepsState ==
  [][(\E o \in {"handler", "fallback"} : pc[o] = "failed") =>
       Stored'.callState = Stored.callState]_vars

\* C10: whichever path created the persona, callState subsequently becomes
\* interruption_delivered.
C10_CreatedLeadsToDelivered ==
  \A o \in Owners :
    (pc[o] = "created") ~> (Stored.callState = "interruption_delivered")


\* C4: one capture emits voiceCloneReady at most once, over any sequence of
\* binary frames, manual triggers, closes and reconnects.
C4_OneShotTrigger == readyEmitted <= 1

\* the latch is set, one event was emitted, every frame has arrived, the
\* threshold is crossed, and a socket was closed and replaced
C4_Witness ==
  /\ readyEmitted = 1 /\ errorEmitted = 0 /\ voiceCloneTriggered
  /\ audioChunksReceived = MaxFrames
  /\ audioStartTime # -1 /\ now - audioStartTime >= minSecondsForCloning
  /\ \E i, j \in SockIds : socks[i] = "closed" /\ socks[j] = "open"

\* C11: for one session at most one clone request is in flight at the
\* provider at any time: a dispatch that arrives while an earlier one is
\* pending sends no second request.
C11_OneCloneInFlight ==
  Cardinality({k \in 1..Len(posts) : posts[k].st = "atProvider"}) <= 1

\* C17: a POST whose audio is smaller than the provider's minimum is
\* answered with an error status and nothing is sent to the provider.
C17_SmallAudioRejected ==
  \A k \in 1..Len(posts) :
    posts[k].size < MinBytes(posts[k].route) =>
      (~posts[k].sent /\ posts[k].status >= 400)

\* C12: in every reachable state the audio buffer of the capture holds at
\* most maxBufferSize chunks, whatever capacity the capture was constructed
\* with.
C12_BufferWithinCapacity == Len(audioBuffer) <= maxBufferSize

\* C13: after n binary frames the buffer of a capture of capacity c holds
\* exactly the most recent min(n, c) frames, oldest first: it has min(n, c)
\* chunks, and every frame leaves the most recent min(n, c) of the chunks
\* held before followed by the new one.
LastN(q, k) == SubSeq(q, Len(q) - k + 1, Len(q))
C13_MostRecentFrames ==
  /\ [](Len(audioBuffer) = Min(audioChunksReceived, maxBufferSize))
  /\ [][audioChunksReceived' = audioChunksReceived + 1 =>
          \E data \in ChunkSizes :
            audioBuffer' = LastN(Append(audioBuffer, data),
                                 Min(audioChunksReceived', maxBufferSize))]_vars

\* C14: when the clone request ends with no response (abort or timeout) the
\* session keeps voiceCloneCompleted false, clonedVoiceId unset and a status
\* other than error, and from then on a status query answers 200 with
\* voiceCloneReady false.
C14_AbortLeavesPending ==
  cloneReq = "aborted" =>
    /\ ~Stored.voiceCloneCompleted
    /\ Stored.clonedVoiceId = Absent
    /\ Stored.status # "error"
    /\ CallStatus.code = 200
    /\ ~CallStatus.voiceCloneReady

\* the request was aborted, and the call has since run to its end with the
\* timers fired
C14_Witness ==
  /\ cloneReq = "aborted"
  /\ callEnded /\ stateTimer = "fired" /\ fallbackSt = "fired"
  /\ pollCeiling = "fired"
  /\ CallStatus.code = 200 /\ ~CallStatus.voiceCloneReady

\* C15: a clone submission that fails transiently (network error or
\* timeout) is followed by another submission or, once the attempts are
\* used up, by a persona-creation request (a call that ends first is
\* excused).
C15_TransientFailureRetried ==
  (cloneReq \in {"aborted", "network_error"} /\ ~callEnded)
    ~> (cloneReq = "inflight" \/ creationRequests > 0 \/ callEnded)

\* C16: when the requests with the cloned voice have all failed, in
\* whatever way, createFutureSelfAssistant does not fail without having
\* issued a request with the default voice.
C16_DefaultVoiceBeforeFailing ==
  (aPc = "thrown" /\ \E k \in 1..Len(vapiRequests) :
                        vapiRequests[k].voice = "cloned")
    => \E k \in 1..Len(vapiRequests) : vapiRequests[k].voice = "default"

\* C18: the poller stops for good on the first tick that sees the clone
\* ready, or at the ceiling: a tick that sees the clone ready clears the
\* interval and starts one creation, the ceiling leaves the interval
\* cleared, a cleared interval never ticks or creates again, the poller
\* starts at most one creation, and there are at most 60 ticks.
C18_PollerStops ==
  /\ [][(PollTick /\ store # 0 /\ CloneReady(Stored)) =>
          (pollInterval' = "cleared"
             /\ creationRequests' = creationRequests + 1)]_vars
  /\ [](pollCeiling = "fired" => pollInterval = "cleared")
  /\ [][pollInterval = "cleared" =>
          (pollInterval' = "cleared" /\ pollTicks' = pollTicks
             /\ (pc'["poller"] = "creating" => pc["poller"] = "creating"))]_vars
  /\ [][(pc'["poller"] = "creating" /\ pc["poller"] # "creating") =>
          pc["poller"] = "idle"]_vars
  /\ [](pollTicks + (IF pc["poller"] = "idle" THEN 0 ELSE 1) <= 60)

\* the poller ticked without success, then saw the clone ready, its
\* creation has ended, and the ceiling has passed
C18_Witness ==
  /\ pollTicks >= 1
  /\ pollInterval = "cleared"
  /\ pc["poller"] = "done"
  /\ pollCeiling = "fired"

\* C19: a reconnect is scheduled only by a close with a code other than
\* 1000, and over any sequence of open and close events one capture
\* schedules at most maxReconnectAttempts reconnects.
ReconnectsScheduled ==
  reconnectTimers + Cardinality({i \in SockIds : socks[i] # "none"})
    - (IF connectCalled THEN 1 ELSE 0)
C19_ReconnectsBounded ==
  /\ [][reconnectTimers' > reconnectTimers =>
          \E i \in SockIds : SocketClose(i, AbnormalClosure)]_vars
  /\ [](ReconnectsScheduled <= maxReconnectAttempts)

\* C20: after disconnect() the capture makes no further connection
\* attempt, disconnect() leaves no timer pending (the connection timeout
\* and a scheduled reconnect included), and a second disconnect() changes
\* nothing.
C20_DisconnectIsFinal ==
  /\ [][disconnectCalled =>
          \A i \in SockIds : socks[i] = "none" => socks'[i] = "none"]_vars
  /\ [][Disconnect =>
          (reconnectTimers' = 0 /\ orphanTimeouts' = 0
             /\ connectionTimeout' # "pending")]_vars
  /\ [][(disconnectCalled /\ Disconnect) => UNCHANGED cvars]_vars


\* The session map and the registry of captures, as the webhook sees them.
StoreAndRegistry ==
  <<hasSession, userName, problemDescription, transcripts, clonedVoiceId,
    voiceCloneCompleted, audioCaptures>>

\* C21: every malformed webhook payload (a body that does not parse, a
\* body that is not an object such as null, a missing message, a type
\* that is missing, empty or not a string) is answered with a 4xx status,
\* never with a 5xx one.
C21_MalformedGets4xx ==
  request = "malformed" => response.status \in 400..499

\* C22: a webhook request that is rejected leaves the session map and the
\* registry of captures as they were before it.
C22_RejectedLeavesState ==
  [][response'.status >= 400 => UNCHANGED StoreAndRegistry]_vars

\* a request was rejected while the session held a name and transcripts
\* and the registry held the capture of the call
C22_Witness ==
  /\ request = "malformed" /\ response.status = 400
  /\ hasSession /\ userName # Absent /\ transcripts # <<>>
  /\ audioCaptures # 0

\* C23: every event with a recognized type is acknowledged with 200 and
\* success true, whatever fails inside its handler.
C23_RecognizedAcknowledged ==
  request = "recognized" => (response.status = 200 /\ response.success)

\* an event whose handler logged a failure was acknowledged
C23_Witness ==
  /\ request = "recognized" /\ response.errorLogged
  /\ response.routed = "handleCallStarted" /\ response.status = 200

\* C24: a recognized event in the flat envelope is given to the handler
\* the same event inside a message is given to, and is acknowledged with
\* success.
C24_FlatEnvelopeAccepted ==
  [][\A p \in FlatPayloads :
        WebhookPost(p, FALSE) =>
          /\ response'.status = 200 /\ response'.success
          /\ response'.routed = Routed(Wrapped(p))]_vars


\* C25: once the session's userName, respectively problemDescription, has
\* been captured, no later webhook event changes it: of two conflicting
\* utterances the session keeps the first.
C25_CapturedTextsStable ==
  [][/\ userName # Absent => userName' = userName
     /\ problemDescription # NoText =>
          problemDescription' = problemDescription]_vars

\* C26: the transcripts never hold two entries with the same role and
\* text, and every step leaves the entries it found in place, in order:
\* it only appends.
C26_TranscriptsDeduplicated ==
  /\ [](\A j, k \in 1..Len(transcripts) :
          transcripts[j] = transcripts[k] => j = k)
  /\ [][/\ Len(transcripts') >= Len(transcripts)
        /\ SubSeq(transcripts', 1, Len(transcripts)) = transcripts]_vars


\* C27: voiceCloneCompleted is true only if clonedVoiceId holds the voice
\* of a clone request that the provider answered with success, and a
\* clonedVoiceId that is set is never replaced by another voice.
C27_CloneIdStable ==
  /\ [](voiceCloneCompleted =>
          /\ clonedVoiceId \in 1..Len(clones)
          /\ clones[clonedVoiceId].req = "ok")
  /\ [][(clonedVoiceId # 0 /\ clonedVoiceId' # 0) =>
          clonedVoiceId' = clonedVoiceId]_vars


\* C28: with no sample-rate metadata, once at least 5 chunks have been
\* seen whose sizes all lie within 50 bytes of their mean, the sample rate
\* of the capture is the one the table gives for the band of the mean
\* (3840: 48000, 1920: 24000, 1280: 24000, 640: 16000).
C28_RateFromChunkSizes ==
  LET h == chunkSizeHistory
      stable == \A k \in 1..Len(h) :
                   Abs(h[k] * Len(h) - SumSeq(h)) < 50 * Len(h)
  IN (audioFormatFromMetadata = 0 /\ Len(h) >= 5 /\ stable) =>
       detectedSampleRate = BandRate(h)


\* What a reader of the file finds: 44 + L bytes, RIFF size 36 + L, data
\* size L, PCM tag 1, 1 channel, 16 bits, the sample rate R, byte rate 2R,
\* block align 2, and the input bytes after the header.
WavAsClaimed(file, data, rate) ==
  LET b == file.bytes
      L == Len(data)
  IN /\ file.outcome = "returned"
     /\ Len(b) = 44 + L
     /\ SubSeq(b, 1, 4) = Ascii("RIFF")
     /\ ReadUInt32LE(b, 4) = Wide(36 + L)
     /\ SubSeq(b, 9, 16) = Ascii("WAVE") \o Ascii("fmt ")
     /\ ReadUInt16LE(b, 20) = 1
     /\ ReadUInt16LE(b, 22) = 1
     /\ ReadUInt32LE(b, 24) = rate
     /\ ReadUInt32LE(b, 28) = WMul(rate, 2)
     /\ ReadUInt16LE(b, 32) = 2
     /\ ReadUInt16LE(b, 34) = 16
     /\ SubSeq(b, 37, 40) = Ascii("data")
     /\ ReadUInt32LE(b, 40) = Wide(L)
     /\ SubSeq(b, 45, 44 + L) = data

\* C29, as stated: for every PCM input of L bytes and every sample rate R
\* createWAVFile returns the 44 + L bytes whose header holds the values
\* above, so that the header read back gives R and L.
C29_WavForEveryRate ==
  wavFile # NoResult => WavAsClaimed(wavFile, audioData, sampleRate)

\* C29, amended: the same for every sample rate below 2^31, the rates
\* whose byte rate 2R fits the 32-bit field.
C29_WavRoundTrip ==
  (wavFile # NoResult /\ sampleRate.hi < 32768) =>
    WavAsClaimed(wavFile, audioData, sampleRate)

\* a file was made of some bytes at the largest rate that fits
C29_Witness ==
  /\ wavFile.outcome = "returned" /\ Len(wavFile.bytes) > 44
  /\ sampleRate = W(32767, 65535)


\* the bytes of the chunks, one after the other
RECURSIVE Flatten(_)
Flatten(chunks) ==
  IF chunks = <<>> THEN <<>> ELSE Head(chunks) \o Flatten(Tail(chunks))

\* C30: for chunks that together form N interleaved 16-bit stereo pairs
\* extractUserChannel returns exactly N samples, the even-indexed samples
\* of the input in their order.
C30_EvenSamplesExtracted ==
  LET all == Flatten(audioChunks)
      N == Len(all) \div 4
  IN (userAudio # NoResult /\ Len(all) % 4 = 0) =>
       /\ Len(userAudio.bytes) = 2 * N
       /\ userAudio.bytes =
            SampleBytes([j \in 1..N |-> Samples(all)[2 * j - 1]])

\* ------------------------------------------------------------------ C31
\* C31: manualTriggerVoiceCloning runs the extraction at once (one
\* voiceCloneReady or voiceCloneError is emitted in the call) and sets the
\* latch when the latch is unset and the buffer is not empty; when the latch
\* is set or the buffer is empty it emits nothing and changes no state.
C31_ManualTrigger ==
  [][\A throws \in BOOLEAN :
       ManualTriggerVoiceCloning(throws) =>
         IF ~voiceCloneTriggered /\ Len(audioBuffer) > 0
         THEN /\ voiceCloneTriggered'
              /\ readyEmitted' + errorEmitted' = readyEmitted + errorEmitted + 1
              /\ ~throws => readyEmitted' = readyEmitted + 1
              /\ audioBuffer' = audioBuffer
         ELSE UNCHANGED vars]_vars

\* the manual trigger has emitted before the time threshold was reached
C31_Witness ==
  /\ voiceCloneTriggered
  /\ readyEmitted = 1
  /\ audioStartTime # -1
  /\ now - audioStartTime < minSecondsForCloning

\* ------------------------------------------------------------------ C32
\* C32: a call-start event for a session id that is in the store keeps the
\* state the session has gathered (transcripts, userName, problem
\* description, clone id, voiceCloneCompleted) and constructs no second
\* capture for the call.
C32_CallStartKeepsSession ==
  [][\A p \in LifecyclePayloads, fails \in BOOLEAN :
       (hasSession /\ Routed(p) = "handleCallStarted"
          /\ WebhookPost(p, fails)) =>
         /\ transcripts' = transcripts
         /\ userName' = userName
         /\ problemDescription' = problemDescription
         /\ clonedVoiceId' = clonedVoiceId
         /\ voiceCloneCompleted' = voiceCloneCompleted
         /\ clones # <<>> => clones' = clones]_vars

\* ------------------------------------------------------------------ C33
\* C33: once handleCallEnded has disconnected the capture of the call, no
\* binary frame makes the capture emit voiceCloneReady (the event whose
\* handler dispatches the clone request), whatever time has passed.
C33_NoCloneAfterCallEnd ==
  [][\A i \in SockIds, len \in ChunkSizes, throws \in BOOLEAN :
       (disconnectCalled /\ HandleBinaryFrame(i, len, throws)) =>
         readyEmitted' = readyEmitted]_vars

\* ------------------------------------------------------------------ C34
\* C34: in every reachable state the stored session has futureSelfCreated
\* true exactly when its futureSelfAssistantId is set.
C34_CreatedIffAssistantId ==
  store # 0 => (Stored.futureSelfCreated <=> Stored.futureSelfAssistantId # 0)

\* ------------------------------------------------------------------ C35
\* C35: the status of the stored session never moves backward: once the
\* call-end event has set it to processing, no later write returns it to
\* counseling.
C35_StatusForward ==
  [][(store # 0 /\ Stored.status = "processing") =>
       Stored'.status = "processing"]_vars

\* ------------------------------------------------------------------ C36
\* C36: one call of createFutureSelfAssistant issues at most maxRetries
\* creation requests with the configured voice and at most one request with
\* the default voice as a fallback (when the configured voice is the default
\* voice itself, at most maxRetries + 1 requests in all).
C36_RequestsBounded ==
  LET n(v) == Cardinality({k \in 1..Len(vapiRequests) :
                             vapiRequests[k].voice = v})
  IN IF aCloned
     THEN n("cloned") <= maxRetries /\ n("default") <= 1
     ELSE n("default") <= maxRetries + 1

\* ------------------------------------------------------------------ C37
\* C37: a step other than the manual trigger emits voiceCloneReady only
\* when minSecondsForCloning seconds have passed since the first binary
\* frame; the anchor is set by the first frame, to the time of that frame,
\* and no later frame and no reconnect changes it.
C37_NotBeforeThreshold ==
  /\ [][(readyEmitted' # readyEmitted
           /\ ~\E throws \in BOOLEAN : ManualTriggerVoiceCloning(throws)) =>
          /\ audioStartTime' # -1
          /\ now' - audioStartTime' >= minSecondsForCloning]_vars
  /\ [][audioStartTime' # audioStartTime =>
          /\ audioChunksReceived = 0 /\ audioChunksReceived' = 1
          /\ audioStartTime = -1 /\ audioStartTime' = now]_vars
  /\ [](audioChunksReceived > 0 => audioStartTime # -1)

\* a capture that reconnected has emitted once the threshold was reached
C37_Witness ==
  /\ readyEmitted = 1
  /\ audioStartTime # -1
  /\ now - audioStartTime >= minSecondsForCloning
  /\ \E i \in SockIds : i > 1 /\ socks[i] = "open"

\* ------------------------------------------------------------------ C38
\* C38: the delay before the k-th consecutive reconnect attempt is
\* min(1000 * 2^(k-1), 10000) ms, where the counter of the capture is k:
\* it is 0 after an open, it grows by one with each reconnect that is
\* scheduled and nothing else changes it; the first delay is 1000 ms, each
\* further one is twice the one before up to the ceiling, and no delay
\* exceeds 10000 ms.
C38_ReconnectDelay ==
  /\ [][reconnectTimers' > reconnectTimers =>
          /\ reconnectAttempts' = reconnectAttempts + 1
          /\ reconnectDelay' = Min(1000 * 2^(reconnectAttempts' - 1), 10000)
          /\ reconnectAttempts = 0 => reconnectDelay' = 1000
          /\ reconnectAttempts > 0 =>
               reconnectDelay' =
                 Min(2 * Min(1000 * 2^(reconnectAttempts - 1), 10000), 10000)]_vars
  /\ [][reconnectAttempts' # reconnectAttempts =>
          \/ reconnectTimers' > reconnectTimers
          \/ (reconnectAttempts' = 0 /\ \E i \in SockIds : SocketOpen(i))]_vars
  /\ [][reconnectTimers' <= reconnectTimers =>
          reconnectDelay' = reconnectDelay]_vars
  /\ [](reconnectDelay <= 10000)

\* the third consecutive reconnect has been scheduled
C38_Witness == reconnectAttempts = maxReconnectAttempts /\ reconnectDelay = 4000

\* ------------------------------------------------------------------ C39
\* C39: a transcript, conversation-update or end-of-call event for a
\* session id that is not in the store leaves the store as it is: no
\* session is created, no field is written and no persona creation is
\* started.  (The timers are set by handleCallStarted after createSession
\* and no code removes a session, so no timer callback meets a missing
\* session.)
C39_UnknownSessionIgnored ==
  [][(~hasSession /\ response'.status = 200
        /\ response'.routed \in {"handleTranscript",
                                 "handleConversationUpdate",
                                 "handleCallEnded"}) =>
       /\ UNCHANGED <<hasSession, userName, problemDescription, transcripts,
                      clonedVoiceId, voiceCloneCompleted>>
       /\ ~response'.creation
       /\ ~response'.errorLogged]_vars

\* a transcript that names the speaker was handled without a session
C39_Witness ==
  /\ ~hasSession
  /\ response.routed = "handleTranscript"
  /\ response.status = 200
  /\ transcripts = <<>> /\ userName = Absent

====
